---- MODULE Spec2Model ----
(***************************************************************************)
(* Model of main1.py: the Streamlit script that filters the residents and  *)
(* charging-station datasets by postal code and keeps the in-memory        *)
(* rating/review ledger ratings_db.                                        *)
(*                                                                         *)
(* Strings that are parsed or produced by the program (the text typed in   *)
(* the pincode box, the decimal text in a message) are sequences of        *)
(* one-character strings, so that int() and str() are computed.            *)
(***************************************************************************)
EXTENDS Integers, Sequences, FiniteSets, TLC

VARIABLES
    \* --- the call filter_by_pincode(data, search_pincode, pincode_column) ---
    data,             \* the GeoDataFrame handed to filter_by_pincode (rows in order)
    raw_input,        \* the text handed to filter_by_pincode
    pincode_column,   \* the key column name
    result,           \* what the call returned
    \* --- the script, one run per user interaction ---
    df_lstat,         \* station registry as loaded (postal-code field of each record)
    df_geo,           \* boundary set as loaded (postal codes)
    df_residents,     \* resident table as loaded (postal codes)
    gdf_residents,    \* preprocess_residents' output of the last run
    gdf_lstat_summary,\* count_plz_occurrences' output of the last run
    search_pincode,   \* the value held by the text_input widget
    ratings_db,       \* the module global: pincode -> [ratings, reviews]
    page,             \* what the last run put on the page
    submitted         \* history: every submission accepted so far, in order

vars == <<data, raw_input, pincode_column, result, df_lstat, df_geo, df_residents,
          gdf_residents, gdf_lstat_summary, search_pincode, ratings_db, page, submitted>>

filterVars == <<data, raw_input, pincode_column, result>>
scriptVars == <<df_lstat, df_geo, df_residents, gdf_residents, gdf_lstat_summary,
                search_pincode, ratings_db, page, submitted>>

----------------------------------------------------------------------------
(* Bounds of the model. *)

\* longest text handed to filter_by_pincode
MaxLen == 2
\* most rows of a dataset handed to filter_by_pincode
MaxRows == 2
\* most records of the station registry
MaxStations == 1
\* longest text typed into the pincode box
MaxQueryLen == 2
\* most rating submissions in one behaviour
MaxSubmissions == 2

\* characters of the texts handed to filter_by_pincode
FilterChars == {"1", "a", " ", "-"}
\* characters typed into the pincode box
QueryChars == {"1", "a"}
\* postal codes of the datasets
PLZ == {1, 11}
\* rows of the datasets handed to filter_by_pincode
Rows == [PLZ : PLZ, Number : {0, 1}]
\* what a user submits: a slider position and a review text
FeedbackChoices == {[rating |-> 4, review |-> "Good"], [rating |-> 2, review |-> "Slow"]}

SeqsUpTo(S, n) == UNION {[1..k -> S] : k \in 0..n}

----------------------------------------------------------------------------
(* int(str) and str(int) of Python. *)

Digits == <<"0", "1", "2", "3", "4", "5", "6", "7", "8", "9">>

IsDigit(c) == \E i \in 1..10 : Digits[i] = c

DigitVal(c) == (CHOOSE i \in 1..10 : Digits[i] = c) - 1

IsSpace(c) == c \in {" ", "\t", "\n", "\r"}

RECURSIVE LStrip(_)
LStrip(s) == IF s # <<>> /\ IsSpace(Head(s)) THEN LStrip(Tail(s)) ELSE s

RECURSIVE RStrip(_)
RStrip(s) ==
    IF s # <<>> /\ IsSpace(s[Len(s)]) THEN RStrip(SubSeq(s, 1, Len(s) - 1)) ELSE s

Strip(s) == RStrip(LStrip(s))

\* digit ("_"? digit)* : the digit part of an integer literal accepted by int()
IsDigitPart(t) ==
    /\ t # <<>>
    /\ IsDigit(t[1])
    /\ IsDigit(t[Len(t)])
    /\ \A i \in 1..Len(t) : IsDigit(t[i]) \/ t[i] = "_"
    /\ \A i \in 1..(Len(t) - 1) : ~(t[i] = "_" /\ t[i + 1] = "_")

RECURSIVE DigitPartVal(_, _)
DigitPartVal(t, acc) ==
    IF t = <<>> THEN acc
    ELSE IF Head(t) = "_" THEN DigitPartVal(Tail(t), acc)
    ELSE DigitPartVal(Tail(t), 10 * acc + DigitVal(Head(t)))

\* int(s): [ok |-> FALSE] stands for the ValueError int() raises
ParseInt(s) ==
    LET t == Strip(s)
        signed == t # <<>> /\ Head(t) \in {"+", "-"}
        body == IF signed THEN Tail(t) ELSE t
    IN  IF IsDigitPart(body)
        THEN [ok |-> TRUE,
              value |-> IF signed /\ Head(t) = "-"
                        THEN 0 - DigitPartVal(body, 0)
                        ELSE DigitPartVal(body, 0)]
        ELSE [ok |-> FALSE, value |-> 0]

RECURSIVE NatToStr(_)
NatToStr(n) ==
    IF n < 10 THEN <<Digits[n + 1]>>
    ELSE NatToStr(n \div 10) \o <<Digits[(n % 10) + 1]>>

\* str(n), as the f-strings format the parsed pincode
IntToStr(n) == IF n < 0 THEN <<"-">> \o NatToStr(0 - n) ELSE NatToStr(n)

----------------------------------------------------------------------------
(* filter_by_pincode *)

None == <<>>

NoDataMsg(p) == <<"No data found for Pincode: ", IntToStr(p)>>
ShowingMsg(p) == <<"Showing data for Pincode: ", IntToStr(p)>>
InvalidMsg == <<"Please enter a valid numeric pincode.">>

\* data[data[pincode_column] == p]: a new frame holding the matching rows, in order
Matching(d, col, p) == SelectSeq(d, LAMBDA r : r[col] = p)

Return(d, msg) == [data |-> d, message |-> msg, raised |-> "none"]
Raise(exc) == [data |-> <<>>, message |-> None, raised |-> exc]

\* mutant: the zero-match branch returns the (empty) filtered frame
filter_by_pincode_EmptyOnMiss(d, s, col) ==
    IF s # <<>>
    THEN LET p == ParseInt(s) IN
         IF p.ok
         THEN LET filtered_data == Matching(d, col, p.value) IN
              IF filtered_data = <<>>
              THEN Return(filtered_data, NoDataMsg(p.value))
              ELSE Return(filtered_data, ShowingMsg(p.value))
         ELSE Return(d, InvalidMsg)
    ELSE Return(d, None)

\* mutant: no try/except around int()
filter_by_pincode_NoExcept(d, s, col) ==
    IF s # <<>>
    THEN LET p == ParseInt(s) IN
         IF p.ok
         THEN LET filtered_data == Matching(d, col, p.value) IN
              IF filtered_data = <<>>
              THEN Return(d, NoDataMsg(p.value))
              ELSE Return(filtered_data, ShowingMsg(p.value))
         ELSE Raise("ValueError")
    ELSE Return(d, None)

\* mutant: the match branch returns the whole frame
filter_by_pincode_Unfiltered(d, s, col) ==
    IF s # <<>>
    THEN LET p == ParseInt(s) IN
         IF p.ok
         THEN LET filtered_data == Matching(d, col, p.value) IN
              IF filtered_data = <<>>
              THEN Return(d, NoDataMsg(p.value))
              ELSE Return(d, ShowingMsg(p.value))
         ELSE Return(d, InvalidMsg)
    ELSE Return(d, None)

filter_by_pincode(d, s, col) ==
    IF s # <<>>
    THEN LET p == ParseInt(s) IN
         IF p.ok
         THEN LET filtered_data == Matching(d, col, p.value) IN
              IF filtered_data = <<>>
              THEN Return(d, NoDataMsg(p.value))
              ELSE Return(filtered_data, ShowingMsg(p.value))
         ELSE Return(d, InvalidMsg)
    ELSE Return(d, None)

----------------------------------------------------------------------------
(* Preprocessor: preprocess_lstat, preprocess_residents, count_plz_occurrences  *)
(* (core/preprocessor.py, called at lines 30-32).  A boundary's geometry is     *)
(* identified with its postal code.                                             *)

\* postal-code fields a station record may carry
StationFields == {<<"1">>, <<"1", "1">>, <<"a">>}

RECURSIVE SortedSeq(_)
SortedSeq(S) ==
    IF S = {} THEN <<>>
    ELSE LET m == CHOOSE x \in S : \A y \in S : x <= y
         IN  <<m>> \o SortedSeq(S \ {m})

\* stations whose postal code coerces to an integer and matches a boundary;
\* the others are dropped
RECURSIVE preprocess_lstat(_, _)
preprocess_lstat(lstat, geo) ==
    IF lstat = <<>> THEN <<>>
    ELSE LET plz == ParseInt(Head(lstat))
             rest == preprocess_lstat(Tail(lstat), geo)
         IN  IF plz.ok /\ plz.value \in geo
             THEN <<[PLZ |-> plz.value]>> \o rest
             ELSE rest

Einwohner(p) == 1000 * p

RECURSIVE ResidentRows(_)
ResidentRows(codes) ==
    IF codes = <<>> THEN <<>>
    ELSE <<[PLZ |-> Head(codes), Einwohner |-> Einwohner(Head(codes))]>>
         \o ResidentRows(Tail(codes))

\* residents inner-joined to the boundaries
preprocess_residents(residents, geo) == ResidentRows(SortedSeq(residents \cap geo))

RECURSIVE GroupRows(_, _)
GroupRows(codes, gdf) ==
    IF codes = <<>> THEN <<>>
    ELSE <<[PLZ |-> Head(codes),
            Number |-> Len(SelectSeq(gdf, LAMBDA r : r.PLZ = Head(codes)))]>>
         \o GroupRows(Tail(codes), gdf)

\* one row per postal code present in the input, Number = group size
count_plz_occurrences(gdf) ==
    GroupRows(SortedSeq({gdf[i].PLZ : i \in 1..Len(gdf)}), gdf)

----------------------------------------------------------------------------
(* add_rating_and_review_sidebar *)

EmptyDb == [p \in {} |-> [ratings |-> <<>>, reviews |-> <<>>]]

RECURSIVE Sum(_)
Sum(s) == IF s = <<>> THEN 0 ELSE Head(s) + Sum(Tail(s))

\* f"{total / n:.2f}" in hundredths: the quotient rounded half to even
Fmt2(total, n) ==
    LET q == (100 * total) \div n
        r == (100 * total) % n
    IN  IF 2 * r < n THEN q
        ELSE IF 2 * r > n THEN q + 1
        ELSE IF q % 2 = 0 THEN q ELSE q + 1

\* enumerate(reviews, start=1)
Numbered(reviews) == [i \in 1..Len(reviews) |-> <<i, reviews[i]>>]

NoSidebar ==
    [shown |-> FALSE, pincode |-> 0, thanked |-> FALSE,
     summary |-> FALSE, average |-> 0, reviews |-> <<>>]

\* mutant: the review is not appended
Submit_NoReview(db, pincode, rating, review) ==
    LET db0 == IF pincode \notin DOMAIN db
               THEN (pincode :> [ratings |-> <<>>, reviews |-> <<>>]) @@ db
               ELSE db
    IN  [db0 EXCEPT ![pincode] = [ratings |-> Append(@.ratings, rating),
                                  reviews |-> @.reviews]]

\* lines 106-111: the effect of the button on the ledger
Submit(db, pincode, rating, review) ==
    LET db0 == IF pincode \notin DOMAIN db
               THEN (pincode :> [ratings |-> <<>>, reviews |-> <<>>]) @@ db
               ELSE db
    IN  [db0 EXCEPT ![pincode] = [ratings |-> Append(@.ratings, rating),
                                  reviews |-> Append(@.reviews, review)]]

\* lines 113-121: the summary shown for the pincode
Display(db, pincode, clicked) ==
    IF pincode \in DOMAIN db
    THEN IF Len(db[pincode].ratings) = 0
         THEN [db |-> db, raised |-> "ZeroDivisionError",
               sidebar |-> [NoSidebar EXCEPT !.shown = TRUE, !.pincode = pincode,
                                             !.thanked = clicked]]
         ELSE [db |-> db, raised |-> "none",
               sidebar |-> [shown |-> TRUE, pincode |-> pincode, thanked |-> clicked,
                            summary |-> TRUE,
                            average |-> Fmt2(Sum(db[pincode].ratings),
                                             Len(db[pincode].ratings)),
                            reviews |-> Numbered(db[pincode].reviews)]]
    ELSE [db |-> db, raised |-> "none",
          sidebar |-> [NoSidebar EXCEPT !.shown = TRUE, !.pincode = pincode,
                                        !.thanked = clicked]]

\* mutant: the entry is created before the button is tested
add_rating_and_review_sidebar_EagerEntry(db, pincode, clicked, rating, review) ==
    LET db0 == IF pincode \notin DOMAIN db
               THEN (pincode :> [ratings |-> <<>>, reviews |-> <<>>]) @@ db
               ELSE db
    IN  Display(IF clicked
                THEN [db0 EXCEPT ![pincode] = [ratings |-> Append(@.ratings, rating),
                                               reviews |-> Append(@.reviews, review)]]
                ELSE db0,
                pincode, clicked)

add_rating_and_review_sidebar(db, pincode, clicked, rating, review) ==
    Display(IF clicked THEN Submit(db, pincode, rating, review) ELSE db, pincode, clicked)

----------------------------------------------------------------------------
(* main, and the script body that calls it *)

\* nothing has run yet
IdlePage == [status |-> "idle", messages |-> <<>>, sidebar |-> NoSidebar, layers |-> <<>>]

\* a run that put nothing on the page
BlankPage == [IdlePage EXCEPT !.status = "ok"]

\* lines 41-44
Messages(residents_message, stations_message) ==
    IF residents_message # None
    THEN <<[level |-> "success", text |-> residents_message]>>
    ELSE IF stations_message # None
    THEN <<[level |-> "warning", text |-> stations_message]>>
    ELSE <<>>

\* lines 50-68
Layers(filtered_residents, filtered_charging_stations) ==
    <<[name |-> "Residents", data |-> filtered_residents,
       value_column |-> "Einwohner"],
      [name |-> "Charging Stations", data |-> filtered_charging_stations,
       value_column |-> "Number"]>>

\* lines 35-68: the ledger and the page after the interactive part of main(),
\* which starts with ledger db and the preprocessed datasets.  An exception
\* that leaves a call leaves main() too: Streamlit stops the run and keeps
\* what was put on the page before it.
main(db, residents, lstat_summary, text, clicked, rating, review) ==
    IF text # <<>>
    THEN LET fr == filter_by_pincode(residents, text, "PLZ")
             fs == filter_by_pincode(lstat_summary, text, "PLZ")
             msgs == Messages(fr.message, fs.message)
             p == ParseInt(text)
         IN  IF fr.raised # "none" \/ fs.raised # "none"
             THEN [db |-> db,
                   page |-> [BlankPage EXCEPT !.status = "ValueError"]]
             ELSE IF ~p.ok
             THEN [db |-> db,
                   page |-> [BlankPage EXCEPT !.status = "ValueError", !.messages = msgs]]
             ELSE LET sb == add_rating_and_review_sidebar(db, p.value, clicked,
                                                          rating, review)
                  IN  IF sb.raised # "none"
                      THEN [db |-> sb.db,
                            page |-> [status |-> sb.raised, messages |-> msgs,
                                      sidebar |-> sb.sidebar, layers |-> <<>>]]
                      ELSE [db |-> sb.db,
                            page |-> [status |-> "ok", messages |-> msgs,
                                      sidebar |-> sb.sidebar,
                                      layers |-> Layers(fr.data, fs.data)]]
    ELSE [db |-> db, page |-> BlankPage]

\* lines 24-32: main() loads the three datasets and preprocesses them
Preprocessed ==
    [residents |-> preprocess_residents(df_residents, df_geo),
     lstat_summary |-> count_plz_occurrences(preprocess_lstat(df_lstat, df_geo))]

\* One execution of the script.  Streamlit executes the file top to bottom in a
\* fresh module namespace on every interaction, so line 11 binds ratings_db to {}
\* before main() runs; main() then loads and preprocesses the datasets (gdf)
\* again and goes on with the widgets.
ScriptRun(gdf, text, clicked, rating, review) ==
    LET run == main(EmptyDb, gdf.residents, gdf.lstat_summary, text, clicked,
                    rating, review)
    IN  /\ gdf_residents' = gdf.residents
        /\ gdf_lstat_summary' = gdf.lstat_summary
        /\ search_pincode' = text
        /\ ratings_db' = run.db
        /\ page' = run.page
        /\ submitted' = IF clicked /\ run.page.sidebar.thanked
                        THEN Append(submitted,
                                    [pincode |-> run.page.sidebar.pincode,
                                     rating |-> rating, review |-> review])
                        ELSE submitted
        /\ UNCHANGED <<df_lstat, df_geo, df_residents>>

Queries == SeqsUpTo(QueryChars, MaxQueryLen)

\* the user types a pincode and presses Enter
EnterPincode ==
    /\ LET gdf == Preprocessed
       IN  \E text \in Queries : ScriptRun(gdf, text, FALSE, 1, "")
    /\ UNCHANGED filterVars

\* the page is loaded or refreshed, or the slider or the review box changes:
\* the script runs with the widgets as they are
Rerun ==
    /\ ScriptRun(Preprocessed, search_pincode, FALSE, 1, "")
    /\ UNCHANGED filterVars

\* the user presses "Submit Rating and Review", which the last run displayed
SubmitRating ==
    /\ page.sidebar.shown
    /\ Len(submitted) < MaxSubmissions
    /\ LET gdf == Preprocessed
       IN  \E fb \in FeedbackChoices :
               ScriptRun(gdf, search_pincode, TRUE, fb.rating, fb.review)
    /\ UNCHANGED filterVars

NotCalled == Raise("not called")

FilterIdle ==
    /\ data = <<>>
    /\ raw_input = <<>>
    /\ pincode_column = "PLZ"
    /\ result = NotCalled

\* The process has started and the script has not run yet.  The files on disk
\* do not change afterwards: every boundary of PLZ, a resident table that
\* covers postal code 1 only (so queries for 1 and for 11 hit and miss it), and
\* any station registry of up to MaxStations records.
Init ==
    /\ FilterIdle
    /\ df_geo = PLZ
    /\ df_residents = {1}
    /\ df_lstat \in SeqsUpTo(StationFields, MaxStations)
    /\ gdf_residents = <<>>
    /\ gdf_lstat_summary = <<>>
    /\ search_pincode = <<>>
    /\ ratings_db = EmptyDb
    /\ page = IdlePage
    /\ submitted = <<>>

Next == EnterPincode \/ Rerun \/ SubmitRating

Spec == Init /\ [][Next]_vars

----------------------------------------------------------------------------
(* filter_by_pincode on its own: any dataset, any text, either column as key *)

CallFilter ==
    /\ result = NotCalled
    /\ result' = filter_by_pincode(data, raw_input, pincode_column)
    /\ UNCHANGED <<data, raw_input, pincode_column>>
    /\ UNCHANGED scriptVars

ScriptIdle ==
    /\ df_geo = {}
    /\ df_residents = {}
    /\ df_lstat = <<>>
    /\ gdf_residents = <<>>
    /\ gdf_lstat_summary = <<>>
    /\ search_pincode = <<>>
    /\ ratings_db = EmptyDb
    /\ page = IdlePage
    /\ submitted = <<>>

InitFilter ==
    /\ data \in SeqsUpTo(Rows, MaxRows)
    /\ raw_input \in SeqsUpTo(FilterChars, MaxLen)
    /\ pincode_column \in {"PLZ", "Number"}
    /\ result = NotCalled
    /\ ScriptIdle

NextFilter == CallFilter

SpecFilter == InitFilter /\ [][NextFilter]_vars

----------------------------------------------------------------------------
(* Properties of filter_by_pincode, checked under SpecFilter *)

Called == result # NotCalled

Parsed == ParseInt(raw_input)

\* the indices of the rows of d whose key column holds p
MatchIdx(d, col, p) == {i \in 1..Len(d) : d[i][col] = p}

\* how often row r occurs in d
Occurrences(d, r) == Cardinality({i \in 1..Len(d) : d[i] = r})

ZeroMatchCall ==
    /\ Called
    /\ raw_input # <<>>
    /\ Parsed.ok
    /\ MatchIdx(data, pincode_column, Parsed.value) = {}

\* C1 as stated: when the text parses to P and no row of D has key P, the call
\* returns D itself with 'No data found for Pincode: P', and what it returns is
\* never empty.
C1_ZeroMatchNeverEmpty ==
    ZeroMatchCall =>
        /\ result.raised = "none"
        /\ result.data = data
        /\ result.message = <<"No data found for Pincode: ", IntToStr(Parsed.value)>>
        /\ result.data # <<>>

\* C1 amended: when the text parses to P and no row of D has key P, the call
\* returns D itself with 'No data found for Pincode: P'; what it returns is
\* empty exactly when D is empty.
C1_ZeroMatchReturnsOriginal ==
    ZeroMatchCall =>
        /\ result.raised = "none"
        /\ result.data = data
        /\ result.message = <<"No data found for Pincode: ", IntToStr(Parsed.value)>>
        /\ (result.data = <<>>) <=> (data = <<>>)

C1_Witness ==
    /\ ZeroMatchCall
    /\ data # <<>>
    /\ Parsed.value \in PLZ
    /\ result.data = data

\* C2: a non-empty text that int() rejects makes the call return D itself with
\* the 'valid numeric pincode' message, and no exception leaves the call.
C2_InvalidReturnsOriginal ==
    (Called /\ raw_input # <<>> /\ ~Parsed.ok) =>
        /\ result.raised = "none"
        /\ result.data = data
        /\ result.message = <<"Please enter a valid numeric pincode.">>

C2_Witness ==
    /\ Called
    /\ raw_input # <<>>
    /\ ~Parsed.ok
    /\ data # <<>>
    /\ result.message = InvalidMsg

MatchCall ==
    /\ Called
    /\ raw_input # <<>>
    /\ Parsed.ok
    /\ MatchIdx(data, pincode_column, Parsed.value) # {}

C8_Returned ==
    MatchCall =>
        /\ result.raised = "none"
        /\ result.message = <<"Showing data for Pincode: ", IntToStr(Parsed.value)>>
        /\ \A i \in 1..Len(result.data) :
               result.data[i][pincode_column] = Parsed.value
        /\ \A r \in Rows :
               r[pincode_column] = Parsed.value =>
                   Occurrences(result.data, r) = Occurrences(data, r)

\* C8: when the text parses to P and some row of D has key P, the call returns
\* exactly the rows of D whose key is P (every one of them, as often as D holds
\* it, and no other row) with 'Showing data for Pincode: P', and D is left as
\* it was.
C8_MatchReturnsExactRows == [](C8_Returned) /\ [][data' = data]_vars

C8_Witness ==
    /\ MatchCall
    /\ Len(result.data) < Len(data)
    /\ Len(result.data) >= 1

----------------------------------------------------------------------------
(* Properties of the script, checked under Spec *)

QueryParsed == ParseInt(search_pincode)

Surfaced(text) == \E i \in 1..Len(page.messages) : page.messages[i].text = text

\* the submissions accepted so far for pincode p, in order
SubmittedFor(p) == SelectSeq(submitted, LAMBDA e : e.pincode = p)

IsPrefix(s, t) == Len(s) <= Len(t) /\ SubSeq(t, 1, Len(s)) = s

\* C3: a query that is not a parseable integer does not fail the interaction:
\* the run completes, shows the invalid-input message and renders both layers
\* from the unfiltered datasets.
C3_InvalidQueryCompletes ==
    (page.status # "idle" /\ search_pincode # <<>> /\ ~QueryParsed.ok) =>
        /\ page.status = "ok"
        /\ Surfaced(InvalidMsg)
        /\ page.layers = Layers(gdf_residents, gdf_lstat_summary)

\* C4: when the page shows the sidebar for pincode P and N > 0 submissions for P
\* have been accepted, the summary lists exactly those N reviews, numbered 1..N
\* in submission order, with the mean of the N ratings.
C4_SummaryListsAllSubmissions ==
    (page.status = "ok" /\ page.sidebar.shown) =>
        LET hist == SubmittedFor(page.sidebar.pincode)
            N == Len(hist)
        IN  N > 0 =>
                /\ page.sidebar.summary
                /\ page.sidebar.reviews = [i \in 1..N |-> <<i, hist[i].review>>]
                /\ page.sidebar.average
                       = Fmt2(Sum([i \in 1..N |-> hist[i].rating]), N)

\* C5: the ledger only grows: every step keeps every entry, and each entry's
\* ratings and reviews before the step are prefixes of those after it.
C5_LedgerOnlyGrows ==
    [][\A p \in DOMAIN ratings_db :
           /\ p \in DOMAIN ratings_db'
           /\ IsPrefix(ratings_db[p].ratings, ratings_db'[p].ratings)
           /\ IsPrefix(ratings_db[p].reviews, ratings_db'[p].reviews)]_vars

\* C6: for every pincode with an entry, ratings and reviews have the same
\* length, and the i-th rating and the i-th review are those of one accepted
\* submission for that pincode, consecutive submissions side by side.
C6_RatingsReviewsAligned ==
    \A p \in DOMAIN ratings_db :
        LET e == ratings_db[p]
            hist == SubmittedFor(p)
        IN  /\ Len(e.ratings) = Len(e.reviews)
            /\ \E k \in 0..Len(hist) :
                   /\ k + Len(e.ratings) <= Len(hist)
                   /\ \A i \in 1..Len(e.ratings) :
                          /\ i <= Len(e.reviews)
                          /\ hist[k + i].rating = e.ratings[i]
                          /\ hist[k + i].review = e.reviews[i]

C6_Witness ==
    \E p \in DOMAIN ratings_db :
        /\ Len(ratings_db[p].ratings) >= 1
        /\ Len(ratings_db[p].reviews) >= 1
        /\ SubmittedFor(p) # <<>>

\* C7: when a query parses to P and the residents dataset or the station
\* aggregate has no row for P, the run shows a 'No data found for Pincode: P'
\* notice.
C7_NoMatchNoticeSurfaced ==
    (page.status = "ok" /\ search_pincode # <<>> /\ QueryParsed.ok) =>
        ((\/ MatchIdx(gdf_residents, "PLZ", QueryParsed.value) = {}
          \/ MatchIdx(gdf_lstat_summary, "PLZ", QueryParsed.value) = {})
             => Surfaced(<<"No data found for Pincode: ", IntToStr(QueryParsed.value)>>))

\* the station records whose postal code coerces to p
StationsAt(p) ==
    {i \in 1..Len(df_lstat) : ParseInt(df_lstat[i]).ok /\ ParseInt(df_lstat[i]).value = p}

\* C9: once the pipeline has run, every postal code of the boundary set has
\* exactly one row in the station aggregate, and the row's Number is the number
\* of station records whose coerced postal code is that code (0 when there is
\* none).
C9_OneRowPerBoundary ==
    page.status # "idle" =>
        \A p \in df_geo :
            /\ Cardinality(MatchIdx(gdf_lstat_summary, "PLZ", p)) = 1
            /\ \A i \in MatchIdx(gdf_lstat_summary, "PLZ", p) :
                   gdf_lstat_summary[i].Number = Cardinality(StationsAt(p))

\* C10: every pincode with an entry in the ledger has at least one rating, and
\* no run stops on the division sum / len of the summary.
C10_EntriesNonEmpty ==
    /\ \A p \in DOMAIN ratings_db : Len(ratings_db[p].ratings) >= 1
    /\ page.status # "ZeroDivisionError"

C10_Witness ==
    /\ page.status = "ok"
    /\ page.sidebar.summary
    /\ page.sidebar.pincode \in DOMAIN ratings_db
    /\ page.sidebar.average = 100 * Sum(ratings_db[page.sidebar.pincode].ratings)

====
